---- MODULE Spec2Model ----
(***************************************************************************)
(* Model of bind/package.go of gopy: NewPackage analyses a type-checked    *)
(* package (go/types) together with its documentation (go/doc) and builds  *)
(* the Package model: constants, variables, structs (with constructors,    *)
(* methods and protocols) and free functions.                              *)
(*                                                                         *)
(* Go strings are TLA+ strings, concatenated with \o.  A Go map walked by  *)
(* `range` is walked in an order chosen nondeterministically.              *)
(***************************************************************************)
EXTENDS Integers, Sequences, FiniteSets, TLC

VARIABLES pkg,     \* the *types.Package given to NewPackage
          doc,     \* the *doc.Package given to NewPackage
          ncalls,  \* number of NewPackage calls made on (pkg, doc)
          ret,     \* what the last NewPackage call returned
          prev     \* what the call before it returned

vars == <<pkg, doc, ncalls, ret, prev>>

(***************************************************************************)
(* Bounds of the model.                                                    *)
(***************************************************************************)
\* size of a package: its declarations, methods, parameters and results
MaxSize == 4
\* number of NewPackage calls on the same package
MaxCalls == 2

(***************************************************************************)
(* go/types: types, variables, signatures, objects.                        *)
(***************************************************************************)
NoType == [kind |-> "nil", name |-> ""]
tError == [kind |-> "named", name |-> "error"]
tString == [kind |-> "basic", name |-> "string"]
tInt == [kind |-> "basic", name |-> "int"]
NamedType(n) == [kind |-> "named", name |-> n]
PointerTo(t) == [kind |-> "pointer", name |-> "*" \o t.name]

TVar(n, t) == [name |-> n, typ |-> t]
NoVar == TVar("", NoType)

\* the name of the package under analysis
PkgName == "geo"

\* the names a package may declare at top level, in the order of
\* Scope.Names() (sorted), and the names of methods in the order of a
\* method set (sorted by Id: exported ones by name, then unexported ones)
NameOrder == <<"A", "A_B", "B", "F", "c">>
MethOrder == <<"B", "C", "m">>
TopNames == {NameOrder[i] : i \in DOMAIN NameOrder}

\* types.Object.Exported: the name starts with an upper-case letter
Exported(name) == name \notin {"c", "m"}

\* what each top-level name may be declared as
AllowedKinds(n) ==
    CASE n = "A" -> {"struct", "iface"}
      [] n = "B" -> {"struct", "var"}
      [] n = "A_B" -> {"func", "const"}
      [] n = "F" -> {"func"}
      [] n = "c" -> {"func", "struct"}

NoSig == [recv |-> NoVar, params |-> <<>>, results |-> <<>>]

\* A types.Object.  kind is "const", "var", "func" or "type"; parent is
\* "pkg" for an object of the package scope and "" for a method
\* (Object.Parent() is nil for methods).
Object(kind, name, typ, sig, under, mset, parent) ==
    [kind |-> kind, name |-> name, typ |-> typ, sig |-> sig,
     under |-> under, mset |-> mset, parent |-> parent]

ConstObj(n) == Object("const", n, tInt, NoSig, "", <<>>, "pkg")
VarObj(n) == Object("var", n, tInt, NoSig, "", <<>>, "pkg")
FuncObj(n, params, results) ==
    Object("func", n, NoType,
           [recv |-> NoVar, params |-> params, results |-> results],
           "", <<>>, "pkg")
MethObj(n, recv, params, results) ==
    Object("func", n, NoType,
           [recv |-> TVar("", recv), params |-> params, results |-> results],
           "", <<>>, "")
TypeObj(n, under, mset) ==
    Object("type", n, NamedType(n), NoSig, under, mset, "pkg")

ParamLists == { <<>>, <<TVar("x", tInt)>> }

\* result tuples of length k over the types ts (results are unnamed)
ResultLists(ts, k) == { [i \in 1..k |-> TVar("", f[i])] : f \in [1..k -> ts] }

\* the receiver types a method of the method set of *T may have: T, *T,
\* or an embedded type the method is promoted from
RecvTypes(tn) == { NamedType(tn), PointerTo(NamedType(tn)), NamedType("E") }

\* A package is measured by its size: one for every declaration, method,
\* parameter and result.

\* the signatures of size s, as <<params, results>>
Sigs(ts, s) ==
    UNION { { <<ps, rs>> : rs \in ResultLists(ts, s - Len(ps)) } :
            ps \in { q \in ParamLists : Len(q) <= s } }

\* the methods named n of size s
MethsOfSize(tn, n, ts, s) ==
    { MethObj(n, r, sg[1], sg[2]) : r \in RecvTypes(tn), sg \in Sigs(ts, s - 1) }

\* the method sets over the method names ns of size b
RECURSIVE MSetsOfSize(_, _, _, _)
MSetsOfSize(tn, ns, ts, b) ==
    IF ns = <<>> THEN (IF b = 0 THEN { <<>> } ELSE {})
    ELSE MSetsOfSize(tn, Tail(ns), ts, b) \cup
         UNION { { <<m>> \o rest :
                     m \in MethsOfSize(tn, Head(ns), ts, s),
                     rest \in MSetsOfSize(tn, Tail(ns), ts, b - s) } :
                 s \in 1..b }

\* the declarations of kind k named n of size s
DeclsOfSize(n, k, ts, s) ==
    CASE k = "const" -> IF s = 1 THEN { ConstObj(n) } ELSE {}
      [] k = "var" -> IF s = 1 THEN { VarObj(n) } ELSE {}
      [] k = "iface" -> IF s = 1 THEN { TypeObj(n, "iface", <<>>) } ELSE {}
      [] k = "func" -> { FuncObj(n, sg[1], sg[2]) : sg \in Sigs(ts, s - 1) }
      [] k = "struct" ->
           IF Exported(n)
           THEN { TypeObj(n, "struct", ms) :
                    ms \in MSetsOfSize(n, MethOrder, ts, s - 1) }
           ELSE IF s = 1 THEN { TypeObj(n, "struct", <<>>) } ELSE {}

\* a skeleton says which names are declared and as what
Skeletons ==
    UNION { { sk \in [ns -> {"struct", "iface", "const", "var", "func"}] :
                \A n \in ns : sk[n] \in AllowedKinds(n) } :
            ns \in { s \in SUBSET TopNames : Cardinality(s) <= MaxSize } }

\* the types a signature of a package with skeleton sk may mention
TypesOf(sk) ==
    {tError, tString} \cup
    { NamedType(n) : n \in { m \in DOMAIN sk : sk[m] \in {"struct", "iface"} } }

\* the scopes (functions from names to objects) with skeleton sk that
\* declare the names of sk among ns, of size b
RECURSIVE ScopesOfSize(_, _, _)
ScopesOfSize(sk, ns, b) ==
    IF ns = <<>> THEN (IF b = 0 THEN { <<>> } ELSE {})
    ELSE IF Head(ns) \notin DOMAIN sk THEN ScopesOfSize(sk, Tail(ns), b)
    ELSE UNION { { (Head(ns) :> o) @@ rest :
                     o \in DeclsOfSize(Head(ns), sk[Head(ns)], TypesOf(sk), s),
                     rest \in ScopesOfSize(sk, Tail(ns), b - s) } :
                 s \in 1..b }

Scopes ==
    UNION { ScopesOfSize(sk, NameOrder, b) : sk \in Skeletons, b \in 0..MaxSize }

Packages == { [name |-> PkgName, scope |-> s] : s \in Scopes }

(***************************************************************************)
(* go/doc: the documentation of the package.                               *)
(***************************************************************************)
ValueDoc(names, text) == [Names |-> names, Doc |-> text]
FuncDoc(n, text) == [Name |-> n, Doc |-> text]
TypeDoc(n, text, meths, funcs) ==
    [Name |-> n, Doc |-> text, Methods |-> meths, Funcs |-> funcs]

\* no declaration is documented
NoDoc == [Consts |-> <<>>, Vars |-> <<>>, Types |-> <<>>, Funcs |-> <<>>]

\* every declaration is documented, in every bucket a name may be looked
\* up in, with a text that tells the bucket
FullTypeDoc(n) ==
    TypeDoc(n, "type " \o n,
            << FuncDoc("B", "method B of " \o n),
               FuncDoc("C", "method C of " \o n) >>,
            << FuncDoc("A_B", "A_B makes " \o n),
               FuncDoc("F", "F makes " \o n) >>)
FullDoc ==
    [Consts |-> << ValueDoc(<<"K">>, "const K"),
                   ValueDoc(<<"A", "A_B", "B">>, "consts A, A_B, B") >>,
     Vars |-> << ValueDoc(<<"A_B", "B">>, "vars A_B, B"),
                 ValueDoc(<<"x">>, "var x") >>,
     Types |-> << FullTypeDoc("A"), FullTypeDoc("B") >>,
     Funcs |-> << FuncDoc("A_B", "func A_B"), FuncDoc("F", "func F") >>]

\* some declarations are documented, some entries have no text
PartDoc ==
    [Consts |-> <<>>,
     Vars |-> << ValueDoc(<<"B">>, "") >>,
     Types |-> << TypeDoc("B", "", <<>>, <<>>),
                  TypeDoc("A", "type A", << FuncDoc("C", "method C of A") >>,
                          << FuncDoc("F", "") >>) >>,
     Funcs |-> << FuncDoc("F", "func F") >>]

DocTrees == { NoDoc, FullDoc, PartDoc }

(***************************************************************************)
(* bind: helpers of package.go.                                            *)
(***************************************************************************)
\* isErrorType reports whether t is the predeclared error type
isErrorType(t) == t = tError

\* isStringer reports whether obj is a method without parameters that
\* returns a string
isStringer(obj) ==
    /\ obj.kind = "func"
    /\ obj.sig.recv # NoVar
    /\ Len(obj.sig.params) = 0
    /\ Len(obj.sig.results) = 1
    /\ obj.sig.results[1].typ = tString

\* pyTypeName returns the name of a type as shown in a signature line
pyTypeName(t) == t.name

\* strings.Join
RECURSIVE Join(_, _)
Join(ss, sepr) ==
    IF ss = <<>> THEN ""
    ELSE IF Len(ss) = 1 THEN ss[1]
    ELSE ss[1] \o sepr \o Join(Tail(ss), sepr)

\* the doc of the first entry of a constant or variable bucket that lists
\* the name n, "" if none does
RECURSIVE ScanValues(_, _)
ScanValues(entries, n) ==
    IF entries = <<>> THEN ""
    ELSE IF \E i \in DOMAIN Head(entries).Names : Head(entries).Names[i] = n
         THEN Head(entries).Doc
         ELSE ScanValues(Tail(entries), n)

\* the first entry named n of a bucket of named entries
RECURSIVE ScanNamed(_, _)
ScanNamed(entries, n) ==
    IF entries = <<>> THEN [found |-> FALSE, Doc |-> ""]
    ELSE IF Head(entries).Name = n
         THEN [found |-> TRUE, Doc |-> Head(entries).Doc]
         ELSE ScanNamed(Tail(entries), n)

\* the walk over doc.Types for a method or a constructor: in every entry
\* named parent, the first method (constructor) named n ends the walk
RECURSIVE ScanTypes(_, _, _, _)
ScanTypes(types, parent, n, isMethod) ==
    IF types = <<>> THEN ""
    ELSE LET typ == Head(types)
             hit == ScanNamed(IF isMethod THEN typ.Methods ELSE typ.Funcs, n)
         IN IF typ.Name = parent /\ hit.found THEN hit.Doc
            ELSE ScanTypes(Tail(types), parent, n, isMethod)

\* parseFn: "type" or "type name" for every variable of a tuple
parseFn(tup) ==
    [i \in DOMAIN tup |->
        IF tup[i].name # "" THEN pyTypeName(tup[i].typ) \o " " \o tup[i].name
        ELSE pyTypeName(tup[i].typ)]

\* the signature line of a callable
docSig(o) ==
    o.name \o "(" \o Join(parseFn(o.sig.params), ", ") \o ") "
           \o Join(parseFn(o.sig.results), ", ")

\* funcDocLookup that looks in the free-function bucket whatever the parent
funcDocLookupFree(d, parent, o) ==
    IF o.parent = ""
    THEN ScanTypes(d.Types, parent, o.name, TRUE)
    ELSE ScanNamed(d.Funcs, o.name).Doc

\* the doc text found for a callable
funcDocLookup(d, parent, o) ==
    IF o.parent = "" \/ (o.parent # "" /\ parent # "")
    THEN ScanTypes(d.Types, parent, o.name, o.parent = "")
    ELSE ScanNamed(d.Funcs, o.name).Doc

\* Package.getDoc: the doc string of the object o; parent is the name of
\* the containing scope ("" for the package scope)
getDoc(d, parent, o) ==
    CASE o.kind = "const" -> ScanValues(d.Consts, o.name)
      [] o.kind = "var" -> ScanValues(d.Vars, o.name)
      [] o.kind = "func" ->
           LET text == funcDocLookup(d, parent, o)
           IN IF text # "" THEN docSig(o) \o "\n\n" \o text ELSE docSig(o)
      [] o.kind = "type" -> ScanNamed(d.Types, o.name).Doc

(***************************************************************************)
(* bind: the models built by the analysis.                                 *)
(***************************************************************************)
\* bind.Var
BVar(typ, name, text) == [typ |-> typ, name |-> name, doc |-> text]

\* newVarFrom: the Var of a types.Var, documented from the variable bucket
newVarFrom(d, v) ==
    BVar(v.typ, v.name, getDoc(d, "", VarObj(v.name)))

newVarsFrom(d, tup) == [i \in DOMAIN tup |-> newVarFrom(d, tup[i])]

NoBVar == BVar(NoType, "", "")

\* newSignatureFrom
newSignatureFrom(d, sig) ==
    [ret |-> newVarsFrom(d, sig.results),
     args |-> newVarsFrom(d, sig.params),
     recv |-> IF sig.recv # NoVar THEN newVarFrom(d, sig.recv) ELSE NoBVar]

\* newSignature
newSignature(recv, params, results) ==
    [ret |-> results, args |-> params, recv |-> recv]

\* bind.Func
Func(name, id, text, sig, typ, rett, haserr, ctor) ==
    [name |-> name, id |-> id, doc |-> text, sig |-> sig, typ |-> typ,
     ret |-> rett, err |-> haserr, ctor |-> ctor, is |-> "Func"]

NoFunc == Func("", "", "", newSignature(NoBVar, <<>>, <<>>), NoSig, NoType,
               FALSE, FALSE)

\* types.Object.String of a function or method
ObjString(o) ==
    "func "
    \o (IF o.sig.recv = NoVar THEN PkgName \o "."
        ELSE "(" \o o.sig.recv.typ.name \o ").")
    \o o.name \o "(" \o Join(parseFn(o.sig.params), ", ") \o ") ("
    \o Join(parseFn(o.sig.results), ", ") \o ")"

ErrSecondResult == "bind: second result value must be of type error: "
ErrTooMany == "bind: too many results to return: "

\* the id of a callable
funcID(parent, obj) ==
    IF parent # "" THEN PkgName \o "_" \o parent \o "_" \o obj.name
    ELSE PkgName \o "_" \o obj.name

\* resultShape with a sole result always taken as the return value
resultShapeNoErrorOnly(res) ==
    CASE Len(res) = 2 ->
           IF ~isErrorType(res[2].typ)
           THEN [ok |-> FALSE, ret |-> NoType, haserr |-> FALSE,
                 msg |-> ErrSecondResult]
           ELSE [ok |-> TRUE, ret |-> res[1].typ, haserr |-> TRUE, msg |-> ""]
      [] Len(res) = 1 ->
           [ok |-> TRUE, ret |-> res[1].typ, haserr |-> FALSE, msg |-> ""]
      [] Len(res) = 0 ->
           [ok |-> TRUE, ret |-> NoType, haserr |-> FALSE, msg |-> ""]
      [] OTHER ->
           [ok |-> FALSE, ret |-> NoType, haserr |-> FALSE, msg |-> ErrTooMany]

\* resultShape with the second of two results left unchecked
resultShapeAnySecond(res) ==
    CASE Len(res) = 2 ->
           [ok |-> TRUE, ret |-> res[1].typ, haserr |-> TRUE, msg |-> ""]
      [] Len(res) = 1 ->
           IF isErrorType(res[1].typ)
           THEN [ok |-> TRUE, ret |-> NoType, haserr |-> TRUE, msg |-> ""]
           ELSE [ok |-> TRUE, ret |-> res[1].typ, haserr |-> FALSE, msg |-> ""]
      [] Len(res) = 0 ->
           [ok |-> TRUE, ret |-> NoType, haserr |-> FALSE, msg |-> ""]
      [] OTHER ->
           [ok |-> FALSE, ret |-> NoType, haserr |-> FALSE, msg |-> ErrTooMany]

\* the return type and error flag of a result tuple; ok is FALSE when the
\* tuple cannot be modelled
resultShape(res) ==
    CASE Len(res) = 2 ->
           IF ~isErrorType(res[2].typ)
           THEN [ok |-> FALSE, ret |-> NoType, haserr |-> FALSE,
                 msg |-> ErrSecondResult]
           ELSE [ok |-> TRUE, ret |-> res[1].typ, haserr |-> TRUE, msg |-> ""]
      [] Len(res) = 1 ->
           IF isErrorType(res[1].typ)
           THEN [ok |-> TRUE, ret |-> NoType, haserr |-> TRUE, msg |-> ""]
           ELSE [ok |-> TRUE, ret |-> res[1].typ, haserr |-> FALSE, msg |-> ""]
      [] Len(res) = 0 ->
           [ok |-> TRUE, ret |-> NoType, haserr |-> FALSE, msg |-> ""]
      [] OTHER ->
           [ok |-> FALSE, ret |-> NoType, haserr |-> FALSE, msg |-> ErrTooMany]

\* newFuncFrom: the Func of a function or method, or an error
newFuncFrom(d, parent, obj, sig) ==
    LET shape == resultShape(sig.results)
    IN IF ~shape.ok
       THEN [f |-> NoFunc, err |-> shape.msg \o ObjString(obj)]
       ELSE [f |-> Func(obj.name, funcID(parent, obj), getDoc(d, parent, obj),
                        newSignatureFrom(d, sig), obj.sig,
                        shape.ret, shape.haserr, FALSE),
             err |-> ""]

\* newConst: a constant, with the function that returns it
newConst(d, o) ==
    LET id == PkgName \o "_" \o o.name
        text == getDoc(d, "", o)
    IN [name |-> o.name, id |-> id, doc |-> text,
        f |-> Func(o.name, "get_" \o id, text,
                   newSignature(NoBVar, <<>>, << BVar(o.typ, "ret", text) >>),
                   NoSig, o.typ, FALSE, FALSE)]

\* Protocol bits
ProtoStringer == 1

\* newStruct
newStruct(d, obj) ==
    [name |-> obj.name, id |-> PkgName \o "_" \o obj.name,
     doc |-> getDoc(d, "", obj), ctors |-> <<>>, meths |-> <<>>,
     prots |-> 0, typ |-> obj.typ, is |-> "Struct"]

(***************************************************************************)
(* bind.Package and Package.process.                                       *)
(***************************************************************************)
\* Scope.Names: the names of the scope, sorted
Names(scope) == SelectSeq(NameOrder, LAMBDA n : n \in DOMAIN scope)

\* a map without the key k
MapDelete(m, k) == [x \in DOMAIN m \ {k} |-> m[x]]

\* the orders a `range` may walk the keys ks in
Perms(ks) ==
    { f \in [1..Cardinality(ks) -> ks] :
        \A i, j \in 1..Cardinality(ks) : i # j => f[i] # f[j] }

\* the Package right after its construction in NewPackage
NewP ==
    [syms |-> {}, objs |-> <<>>, consts |-> <<>>, vars |-> <<>>,
     structs |-> <<>>, funcs |-> <<>>]

addConst(d, p, obj) == [p EXCEPT !.consts = Append(@, newConst(d, obj))]

addVar(d, p, obj) ==
    [p EXCEPT !.vars = Append(@, newVarFrom(d, obj))]

\* addStruct that leaves the struct out of the lookup table
addStructUnregistered(p, s) == [p EXCEPT !.structs = Append(@, s)]

addStruct(p, s) ==
    [p EXCEPT !.structs = Append(@, s), !.objs = (s.name :> s) @@ @]

addFunc(p, f) ==
    [p EXCEPT !.funcs = Append(@, f), !.objs = (f.name :> f) @@ @]

\* symtab.addSymbol
addSymbol(p, obj) == [p EXCEPT !.syms = @ \cup {obj.name}]

ErrUnsupported == "not yet supported: "

\* The state of process: the Package, the two working maps, the error to
\* return ("" for nil) and the value process panicked with ("" if it did
\* not).
ProcState(p, funcs, structs, err, panic) ==
    [p |-> p, funcs |-> funcs, structs |-> structs, err |-> err,
     panic |-> panic]

\* one turn of the walk over the names of the scope
scopeStep(d, scope, st, name) ==
    LET obj == scope[name]
        p1 == addSymbol(st.p, obj)
    IN IF ~Exported(obj.name) THEN st
       ELSE CASE obj.kind = "const" ->
                   [st EXCEPT !.p = addConst(d, p1, obj)]
              [] obj.kind = "var" ->
                   [st EXCEPT !.p = addVar(d, p1, obj)]
              [] obj.kind = "func" ->
                   LET r == newFuncFrom(d, "", obj, obj.sig)
                   IN IF r.err # ""
                      THEN [st EXCEPT !.p = p1, !.err = r.err]
                      ELSE [st EXCEPT !.p = p1,
                                      !.funcs = (name :> r.f) @@ @]
              [] obj.kind = "type" ->
                   IF obj.under = "struct"
                   THEN [st EXCEPT !.p = p1,
                                   !.structs = (name :> newStruct(d, obj)) @@ @]
                   ELSE [st EXCEPT !.p = p1,
                                   !.panic = ErrUnsupported \o obj.name]
              [] OTHER ->
                   [st EXCEPT !.p = p1, !.panic = ErrUnsupported \o obj.name]

\* the walk over the names of the scope; it ends at the first error or panic
RECURSIVE scopeWalk(_, _, _, _)
scopeWalk(d, scope, st, names) ==
    IF names = <<>> \/ st.err # "" \/ st.panic # "" THEN st
    ELSE scopeWalk(d, scope, scopeStep(d, scope, st, Head(names)), Tail(names))

\* ctorWalk that leaves a constructor among the functions
RECURSIVE ctorWalkNoDelete(_, _, _, _)
ctorWalkNoDelete(d, scope, w, forder) ==
    IF forder = <<>> THEN w
    ELSE LET name == Head(forder)
             fct == w.funcs[name]
         IN IF name \notin DOMAIN w.funcs
            THEN ctorWalkNoDelete(d, scope, w, Tail(forder))
            ELSE IF fct.ret = NoType
            THEN ctorWalkNoDelete(d, scope, w, Tail(forder))
            ELSE IF fct.ret = w.s.typ
            THEN ctorWalkNoDelete(d, scope,
                     [funcs |-> w.funcs,
                      s |-> [w.s EXCEPT !.ctors =
                               Append(@, [fct EXCEPT
                                   !.doc = getDoc(d, w.s.name, scope[name]),
                                   !.ctor = TRUE])]],
                     Tail(forder))
            ELSE ctorWalkNoDelete(d, scope, w, Tail(forder))

\* the walk over the functions for the struct s, in the order forder:
\* a function that returns the type of s becomes a constructor of s
RECURSIVE ctorWalk(_, _, _, _)
ctorWalk(d, scope, w, forder) ==
    IF forder = <<>> THEN w
    ELSE LET name == Head(forder)
             fct == w.funcs[name]
         IN IF name \notin DOMAIN w.funcs
            THEN ctorWalk(d, scope, w, Tail(forder))
            ELSE IF fct.ret = NoType
            THEN ctorWalk(d, scope, w, Tail(forder))
            ELSE IF fct.ret = w.s.typ
            THEN ctorWalk(d, scope,
                     [funcs |-> MapDelete(w.funcs, name),
                      s |-> [w.s EXCEPT !.ctors =
                               Append(@, [fct EXCEPT
                                   !.doc = getDoc(d, w.s.name, scope[name]),
                                   !.ctor = TRUE])]],
                     Tail(forder))
            ELSE ctorWalk(d, scope, w, Tail(forder))

\* prots |= bit
SetBit(prots, bit) ==
    IF (prots \div bit) % 2 = 1 THEN prots ELSE prots + bit

\* methWalk that does not skip the unexported methods
RECURSIVE methWalkUnfiltered(_, _, _)
methWalkUnfiltered(d, w, mset) ==
    IF mset = <<>> \/ w.err # "" THEN w
    ELSE LET meth == Head(mset)
             r == newFuncFrom(d, w.s.name, meth, meth.sig)
         IN IF r.err # "" THEN [w EXCEPT !.err = r.err]
            ELSE methWalkUnfiltered(d,
                     [w EXCEPT !.s.meths = Append(@, r.f),
                               !.s.prots = IF isStringer(meth)
                                           THEN SetBit(@, ProtoStringer)
                                           ELSE @],
                     Tail(mset))

\* methWalk that looks for the Stringer before it skips the unexported
\* methods
RECURSIVE methWalkEarlyStringer(_, _, _)
methWalkEarlyStringer(d, w, mset) ==
    IF mset = <<>> \/ w.err # "" THEN w
    ELSE LET meth == Head(mset)
             r == newFuncFrom(d, w.s.name, meth, meth.sig)
             w1 == [w EXCEPT !.s.prots = IF isStringer(meth)
                                         THEN SetBit(@, ProtoStringer)
                                         ELSE @]
         IN IF ~Exported(meth.name)
            THEN methWalkEarlyStringer(d, w1, Tail(mset))
            ELSE IF r.err # "" THEN [w EXCEPT !.err = r.err]
            ELSE methWalkEarlyStringer(d,
                     [w1 EXCEPT !.s.meths = Append(@, r.f)], Tail(mset))

\* the walk over the method set of *s: every exported method is added to
\* the methods of s; it ends at the first error
RECURSIVE methWalk(_, _, _)
methWalk(d, w, mset) ==
    IF mset = <<>> \/ w.err # "" THEN w
    ELSE LET meth == Head(mset)
             r == newFuncFrom(d, w.s.name, meth, meth.sig)
         IN IF ~Exported(meth.name) THEN methWalk(d, w, Tail(mset))
            ELSE IF r.err # "" THEN [w EXCEPT !.err = r.err]
            ELSE methWalk(d,
                     [w EXCEPT !.s.meths = Append(@, r.f),
                               !.s.prots = IF isStringer(meth)
                                           THEN SetBit(@, ProtoStringer)
                                           ELSE @],
                     Tail(mset))

\* one turn of the walk over the structs: constructors, methods, addStruct
structStep(d, scope, st, sname, forder) ==
    LET c == ctorWalk(d, scope, [funcs |-> st.funcs, s |-> st.structs[sname]],
                      forder)
        m == methWalk(d, [s |-> c.s, err |-> ""], scope[sname].mset)
        structs1 == IF Len(c.s.ctors) > 0
                    THEN [st.structs EXCEPT ![sname] = c.s]
                    ELSE st.structs
    IN IF m.err # ""
       THEN [st EXCEPT !.funcs = c.funcs, !.structs = structs1, !.err = m.err]
       ELSE [st EXCEPT !.funcs = c.funcs, !.structs = structs1,
                       !.p = addStruct(@, m.s)]

\* the walk over the structs, in the order sorder; forders[sname] is the
\* order the functions are walked in for the struct sname
RECURSIVE structWalk(_, _, _, _, _)
structWalk(d, scope, st, sorder, forders) ==
    IF sorder = <<>> \/ st.err # "" THEN st
    ELSE structWalk(d, scope,
             structStep(d, scope, st, Head(sorder), forders[Head(sorder)]),
             Tail(sorder), forders)

\* the walk over the functions left, in the order forder
RECURSIVE funcWalk(_, _, _)
funcWalk(p, funcs, forder) ==
    IF forder = <<>> THEN p
    ELSE IF Head(forder) \notin DOMAIN funcs
         THEN funcWalk(p, funcs, Tail(forder))
         ELSE funcWalk(addFunc(p, funcs[Head(forder)]), funcs, Tail(forder))

\* Package.process, with the orders its three walks over maps take
process(d, scope, sorder, forders, lastorder) ==
    LET st1 == scopeWalk(d, scope, ProcState(NewP, <<>>, <<>>, "", ""),
                         Names(scope))
        st2 == structWalk(d, scope, st1, sorder, forders)
    IN IF st1.err # "" \/ st1.panic # "" THEN st1
       ELSE IF st2.err # "" THEN st2
       ELSE [st2 EXCEPT !.p = funcWalk(@, st2.funcs, lastorder)]

\* what NewPackage returns: (p, nil), (nil, err), or a panic
NilPackage == [nil |-> TRUE]
Returned(p, err, panic) ==
    [p |-> p, err |-> err, panic |-> panic, called |-> TRUE]
NoCall == [p |-> NilPackage, err |-> "", panic |-> "", called |-> FALSE]

NewPackageWith(pk, d, sorder, forders, lastorder) ==
    LET st == process(d, pk.scope, sorder, forders, lastorder)
    IN IF st.panic # "" THEN Returned(NilPackage, "", st.panic)
       ELSE IF st.err # "" THEN Returned(NilPackage, st.err, "")
       ELSE Returned(st.p, "", "")

\* the names of the exported functions and structs of a scope: the keys of
\* the two working maps of process
FuncKeys(scope) ==
    { n \in DOMAIN scope : Exported(n) /\ scope[n].kind = "func" }
StructKeys(scope) ==
    { n \in DOMAIN scope :
        Exported(n) /\ scope[n].kind = "type" /\ scope[n].under = "struct" }

\* everything NewPackage may return for a package and its documentation
Outcomes(pk, d) ==
    { NewPackageWith(pk, d, sorder, forders, lastorder) :
        sorder \in Perms(StructKeys(pk.scope)),
        forders \in [StructKeys(pk.scope) -> Perms(FuncKeys(pk.scope))],
        lastorder \in Perms(FuncKeys(pk.scope)) }

\* Package.Lookup
Lookup(p, o) ==
    IF o.name \in DOMAIN p.objs
    THEN [obj |-> p.objs[o.name], ok |-> TRUE]
    ELSE [obj |-> NoFunc, ok |-> FALSE]

(***************************************************************************)
(* The state machine: NewPackage is called on a package and its            *)
(* documentation, and may be called again on the same inputs.              *)
(***************************************************************************)
Init ==
    /\ pkg \in Packages
    /\ doc \in DocTrees
    /\ ncalls = 0
    /\ ret = NoCall
    /\ prev = NoCall

NewPackage ==
    /\ ncalls < MaxCalls
    /\ ncalls' = ncalls + 1
    /\ prev' = ret
    /\ ret' \in Outcomes(pkg, doc)
    /\ UNCHANGED <<pkg, doc>>

Next == NewPackage

Spec == Init /\ [][Next]_vars

(***************************************************************************)
(* Properties.  Succeeded: the last NewPackage call returned a Package.     *)
(***************************************************************************)
Succeeded == ret.called /\ ret.err = "" /\ ret.panic = ""
Failed == ret.called /\ ret.err # ""
Panicked == ret.called /\ ret.panic # ""

Range(sq) == { sq[i] : i \in DOMAIN sq }
Count(sq, name) == Cardinality({ i \in DOMAIN sq : sq[i].name = name })

\* the declaration of the method named n in the method set of *T
MethDecl(T, n) ==
    CHOOSE m \in Range(pkg.scope[T].mset) : m.name = n

\* the error type, a result of the error type, an unmodellable result tuple
IsErr(v) == v.typ = [kind |-> "named", name |-> "error"]
BadShape(res) == Len(res) >= 3 \/ (Len(res) = 2 /\ ~IsErr(res[2]))

\* the exported methods in the method set of *T
ExportedMeths(T) == SelectSeq(pkg.scope[T].mset, LAMBDA m : Exported(m.name))

\* C1: the result-arity policy
\* what the policy asks of the model f of a callable with the results res
Policy(res, f) ==
    CASE Len(res) = 0 -> f.ret = NoType /\ f.err = FALSE
      [] Len(res) = 1 /\ IsErr(res[1]) -> f.ret = NoType /\ f.err = TRUE
      [] Len(res) = 1 /\ ~IsErr(res[1]) -> f.ret = res[1].typ /\ f.err = FALSE
      [] Len(res) = 2 -> IsErr(res[2]) /\ f.ret = res[1].typ /\ f.err = TRUE
      [] OTHER -> FALSE

\* C1: after a successful analysis every Callable Model (free function,
\* constructor, method) has the return type and the error flag that the
\* result-arity policy gives for the results of its declaration: none and
\* false for 0 results; none and true for a sole error result; the result's
\* type and false for a sole other result; the first result's type and true
\* for a value followed by an error.
C1_ArityPolicy ==
    Succeeded =>
        /\ \A f \in Range(ret.p.funcs) :
               Policy(pkg.scope[f.name].sig.results, f)
        /\ \A s \in Range(ret.p.structs) :
               /\ \A f \in Range(s.ctors) :
                      Policy(pkg.scope[f.name].sig.results, f)
               /\ \A f \in Range(s.meths) :
                      Policy(MethDecl(s.name, f.name).sig.results, f)

\* a successful analysis of a package with a struct and a method of it
\* that returns a value and an error
C1_Witness ==
    /\ Succeeded
    /\ \E s \in Range(ret.p.structs) : \E f \in Range(s.meths) :
           /\ Len(MethDecl(s.name, f.name).sig.results) = 2
           /\ f.err = TRUE
           /\ f.ret = tString

\* C2: the declarations that cannot be modelled
BadFuncs ==
    SelectSeq(Names(pkg.scope),
              LAMBDA n : /\ Exported(n)
                         /\ pkg.scope[n].kind = "func"
                         /\ BadShape(pkg.scope[n].sig.results))
BadMeths(T) == SelectSeq(ExportedMeths(T), LAMBDA m : BadShape(m.sig.results))
ErrorNaming(o) ==
    (IF Len(o.sig.results) = 2
     THEN "bind: second result value must be of type error: "
     ELSE "bind: too many results to return: ") \o ObjString(o)

DeclReturn(res) ==
    IF Len(res) = 1 /\ ~IsErr(res[1]) THEN res[1].typ
    ELSE IF Len(res) = 2 THEN res[1].typ
    ELSE NoType
\* the exported structs whose type the function named n returns
CtorOf(n) ==
    { T \in StructKeys(pkg.scope) :
        DeclReturn(pkg.scope[n].sig.results) = pkg.scope[T].typ }

\* C3: after a successful analysis every exported function is in the
\* Package exactly once: a function whose non-error return type is the type
\* of an exported struct T is not in the free functions and is once in the
\* constructors of T, with its constructor flag set, and in no other
\* struct's constructors; any other function is once in the free functions,
\* with the flag unset, and in no struct's constructors.
C3_FunctionsOnce ==
    Succeeded =>
        \A n \in FuncKeys(pkg.scope) :
            IF CtorOf(n) # {}
            THEN /\ Count(ret.p.funcs, n) = 0
                 /\ \A s \in Range(ret.p.structs) :
                        /\ Count(s.ctors, n) = (IF s.name \in CtorOf(n) THEN 1 ELSE 0)
                        /\ \A f \in Range(s.ctors) : f.name = n => f.ctor = TRUE
                 /\ \E s \in Range(ret.p.structs) : s.name \in CtorOf(n)
                 /\ Cardinality(CtorOf(n)) = 1
            ELSE /\ Count(ret.p.funcs, n) = 1
                 /\ \A f \in Range(ret.p.funcs) : f.name = n => f.ctor = FALSE
                 /\ \A s \in Range(ret.p.structs) : Count(s.ctors, n) = 0

\* a successful analysis of a package with two structs and a function that
\* returns one of them: a constructor of that struct only
C3_Witness ==
    /\ Succeeded
    /\ Len(ret.p.structs) = 2
    /\ ret.p.funcs = <<>>
    /\ \E n \in FuncKeys(pkg.scope) : \E s, t \in Range(ret.p.structs) :
           /\ s.name \in CtorOf(n)
           /\ Count(s.ctors, n) = 1
           /\ t.name # s.name
           /\ t.ctors = <<>>

\* C4: after a successful analysis a constructor of the struct T has the
\* identity package_T_function
C4_CtorIdentity ==
    Succeeded =>
        \A s \in Range(ret.p.structs) : \A f \in Range(s.ctors) :
            f.id = PkgName \o "_" \o s.name \o "_" \o f.name

\* C5: the identities of the models of a Package
RECURSIVE Flatten(_)
Flatten(sqs) == IF sqs = <<>> THEN <<>> ELSE Head(sqs) \o Flatten(Tail(sqs))
IdsOf(sq) == [i \in DOMAIN sq |-> sq[i].id]
AllIds(p) ==
    IdsOf(p.consts) \o IdsOf(p.funcs) \o IdsOf(p.structs)
    \o Flatten([i \in DOMAIN p.structs |->
                   IdsOf(p.structs[i].ctors) \o IdsOf(p.structs[i].meths)])

\* C5: after a successful analysis no two models among the constants, the
\* free functions, the structs and their constructors and methods have the
\* same identity
C5_UniqueIds ==
    Succeeded =>
        \A i, j \in DOMAIN AllIds(ret.p) :
            i # j => AllIds(ret.p)[i] # AllIds(ret.p)[j]

\* C6: after a successful analysis the methods of every struct T are the
\* exported methods of the method set of *T (declared on T, declared on *T
\* or promoted from an embedded type), each exactly once, and no unexported
\* method is among them; each is the model of the method of that name (it
\* has its receiver) and has the identity package_T_method
C6_MethodList ==
    Succeeded =>
        \A s \in Range(ret.p.structs) :
            /\ { f.name : f \in Range(s.meths) } =
               { m.name : m \in { x \in Range(pkg.scope[s.name].mset) :
                                    Exported(x.name) } }
            /\ \A f \in Range(s.meths) : Count(s.meths, f.name) = 1
            /\ \A f \in Range(s.meths) :
                   /\ f.sig.recv.typ = MethDecl(s.name, f.name).sig.recv.typ
                   /\ f.id = PkgName \o "_" \o s.name \o "_" \o f.name

\* a successful analysis of a struct whose method set holds an exported
\* method promoted from an embedded type and an unexported method
C6_Witness ==
    /\ Succeeded
    /\ \E s \in Range(ret.p.structs) :
           /\ Len(s.meths) = 1
           /\ s.meths[1].sig.recv.typ = NamedType("E")
           /\ \E m \in Range(pkg.scope[s.name].mset) : ~Exported(m.name)

\* C7: a method without parameters that returns a string
StringerShape(m) ==
    /\ m.sig.params = <<>>
    /\ Len(m.sig.results) = 1
    /\ m.sig.results[1].typ = [kind |-> "basic", name |-> "string"]

\* C7: after a successful analysis the ProtoStringer bit of a struct T is
\* set if and only if the method set of *T holds an exported method without
\* parameters that returns a string
C7_StringerBit ==
    Succeeded =>
        \A s \in Range(ret.p.structs) :
            (s.prots = ProtoStringer) <=>
                \E m \in Range(pkg.scope[s.name].mset) :
                    Exported(m.name) /\ StringerShape(m)

\* a successful analysis of a struct whose only method without parameters
\* that returns a string is unexported: its bit is clear
C7_Witness ==
    /\ Succeeded
    /\ \E s \in Range(ret.p.structs) :
           /\ s.prots = 0
           /\ \E m \in Range(pkg.scope[s.name].mset) :
                  ~Exported(m.name) /\ StringerShape(m)

\* C8: two NewPackage calls on the same package and documentation return
\* the same: the same error, or the same Package with the same lists in the
\* same order
C8_Deterministic ==
    (ncalls >= 2) => ret = prev

\* C9: the doc text of the first entry named n of a bucket, "" if none
BucketText(bucket, n) ==
    LET hits == { i \in DOMAIN bucket : bucket[i].Name = n }
    IN IF hits = {} THEN ""
       ELSE bucket[CHOOSE i \in hits : \A j \in hits : i <= j].Doc
\* the doc text of the first entry of a bucket of values that lists n
ValueText(bucket, n) ==
    LET hits == { i \in DOMAIN bucket : n \in Range(bucket[i].Names) }
    IN IF hits = {} THEN ""
       ELSE bucket[CHOOSE i \in hits : \A j \in hits : i <= j].Doc
\* the entry of the type T in the type bucket
TypeEntry(T) ==
    LET hits == { i \in DOMAIN doc.Types : doc.Types[i].Name = T }
    IN IF hits = {} THEN TypeDoc(T, "", <<>>, <<>>)
       ELSE doc.Types[CHOOSE i \in hits : \A j \in hits : i <= j]
\* the documentation of a callable: its signature line, then the text
WithSignature(decl, text) ==
    IF text = "" THEN docSig(decl) ELSE docSig(decl) \o "\n\n" \o text

\* C9: after a successful analysis the documentation of a callable is its
\* signature line alone when its bucket has no text for it, and the
\* signature line, a blank line and the text otherwise; the bucket is the
\* free-function bucket for a free function, the constructors of T for a
\* constructor of T and the methods of T for a method of T.  The
\* documentation of a constant, a variable or a struct is the text looked
\* up for its name, "" when there is none.
C9_Documentation ==
    Succeeded =>
        /\ \A f \in Range(ret.p.funcs) :
               f.doc = WithSignature(pkg.scope[f.name],
                                     BucketText(doc.Funcs, f.name))
        /\ \A s \in Range(ret.p.structs) :
               /\ s.doc = BucketText(doc.Types, s.name)
               /\ \A f \in Range(s.ctors) :
                      f.doc = WithSignature(pkg.scope[f.name],
                                  BucketText(TypeEntry(s.name).Funcs, f.name))
               /\ \A f \in Range(s.meths) :
                      f.doc = WithSignature(MethDecl(s.name, f.name),
                                  BucketText(TypeEntry(s.name).Methods, f.name))
        /\ \A c \in Range(ret.p.consts) : c.doc = ValueText(doc.Consts, c.name)
        /\ \A v \in Range(ret.p.vars) : v.doc = ValueText(doc.Vars, v.name)

\* a successful analysis of a documented package with a constructor whose
\* text differs between the free-function bucket and the constructors of
\* its struct: its documentation carries the latter
C9_Witness ==
    /\ Succeeded
    /\ \E s \in Range(ret.p.structs) : \E f \in Range(s.ctors) :
           /\ BucketText(doc.Funcs, f.name) # ""
           /\ BucketText(TypeEntry(s.name).Funcs, f.name) # ""
           /\ BucketText(doc.Funcs, f.name) #
                  BucketText(TypeEntry(s.name).Funcs, f.name)
           /\ f.doc = docSig(pkg.scope[f.name]) \o "\n\n"
                          \o BucketText(TypeEntry(s.name).Funcs, f.name)

\* C10: the names Lookup may be asked for
LookupNames == TopNames \cup { MethOrder[i] : i \in DOMAIN MethOrder }

\* C10: after a successful analysis Lookup finds a model for a name if and
\* only if it is the name of a struct of the struct list or of a function of
\* the free-function list, and returns that entry; no constant, variable,
\* constructor or method is returned
C10_Lookup ==
    Succeeded =>
        \A n \in LookupNames :
            LET r == Lookup(ret.p, [name |-> n])
                hits == { s \in Range(ret.p.structs) : s.name = n } \cup
                        { f \in Range(ret.p.funcs) : f.name = n }
            IN /\ r.ok <=> hits # {}
               /\ r.ok => hits = { r.obj }
               /\ r.ok => /\ r.obj \notin Range(ret.p.consts)
                          /\ r.obj \notin Range(ret.p.vars)
                          /\ \A s \in Range(ret.p.structs) :
                                 /\ r.obj \notin Range(s.meths)
                                 /\ r.obj \notin Range(s.ctors)

\* a successful analysis of a package with a struct, a constructor of it and
\* a constant: Lookup finds the struct, and neither the constructor nor the
\* constant
C10_Witness ==
    /\ Succeeded
    /\ \E s \in Range(ret.p.structs) :
           /\ Lookup(ret.p, [name |-> s.name]) = [obj |-> s, ok |-> TRUE]
           /\ \E f \in Range(s.ctors) : ~Lookup(ret.p, [name |-> f.name]).ok
    /\ \E c \in Range(ret.p.consts) : ~Lookup(ret.p, [name |-> c.name]).ok

====
